---------------------------- MODULE Spec2Model ----------------------------
(***************************************************************************)
(* A model of ActionBlockStreamer                                          *)
(* (src/LLMProviders/chainRunner/utils/ActionBlockStreamer.ts).            *)
(*                                                                         *)
(* Text is a sequence of one-character strings.  Offsets are the 0-based   *)
(* offsets of the JavaScript string methods, so that substring, indexOf    *)
(* and the regular expressions keep the arithmetic of the source.          *)
(***************************************************************************)
EXTENDS Integers, Sequences, FiniteSets, TLC

(***************************************************************************)
(* String primitives of the runtime.                                       *)
(***************************************************************************)

\* The least element of a set of integers, or none when the set is empty.
leastOr(S, none) == IF S = {} THEN none ELSE CHOOSE i \in S : \A j \in S : i <= j

\* String.prototype.substring(a, b), indices clamped to the string.
substring(str, a, b) ==
    LET lo == IF a > Len(str) THEN Len(str) ELSE a
        hi == IF b > Len(str) THEN Len(str) ELSE b
    IN  IF hi <= lo THEN << >> ELSE SubSeq(str, lo + 1, hi)

\* String.prototype.substring(a): the tail from offset a.
substringFrom(str, a) == substring(str, a, Len(str))

\* Whether pat occurs in str at offset i.
occursAt(str, pat, i) ==
    /\ i >= 0
    /\ i + Len(pat) <= Len(str)
    /\ \A k \in 1..Len(pat) : str[i + k] = pat[k]

\* String.prototype.indexOf(pat, from): the first offset >= from, or -1.
indexOf(str, pat, from) ==
    leastOr({i \in from..(Len(str) - Len(pat)) : occursAt(str, pat, i)}, -1)

\* The characters the regular-expression class \s and trim() treat as blank.
Whitespace == {" ", "\n"}

\* The length of the longest run of blanks that starts at offset i
\* (the regular expression \s* matched greedily there).
wsRun(str, i) ==
    leastOr({j \in i..Len(str) : j = Len(str) \/ str[j + 1] \notin Whitespace},
            Len(str)) - i

\* The length of the longest run of blanks that ends at offset i and does
\* not reach back before offset lo.
wsRunBack(str, i, lo) ==
    i + leastOr({-j : j \in {k \in lo..i : k = lo \/ str[k] \notin Whitespace}}, -lo)

\* String.prototype.trim(), given the length a of the leading run of blanks.
trimFrom(str, a) ==
    IF a = Len(str) THEN << >>
    ELSE substring(str, a, Len(str) - wsRunBack(str, Len(str), a))

\* String.prototype.trim().
trim(str) == trimFrom(str, wsRun(str, 0))

(***************************************************************************)
(* The literals of the directive grammar.                                  *)
(***************************************************************************)

OpenTag == <<"<","w","r","i","t","e","T","o","F","i","l","e",">">>
CloseTag == <<"<","/","w","r","i","t","e","T","o","F","i","l","e",">">>
PathOpen == <<"<","p","a","t","h",">">>
PathClose == <<"<","/","p","a","t","h",">">>
ContentOpen == <<"<","c","o","n","t","e","n","t",">">>
ContentClose == <<"<","/","c","o","n","t","e","n","t",">">>
\* The backquote character: an atom of its own, since the language's strings
\* cannot hold one.
Backquote == "BQ"
Fence == <<Backquote, Backquote, Backquote>>
XmlTag == <<"x","m","l">>


(***************************************************************************)
(* Regular-expression matching, as the engine performs it.                 *)
(***************************************************************************)

\* The result of a match that failed (JavaScript's null).
null == [ok |-> FALSE]

\* The match of  open [\s\S]*? close  whose open is at offset o and whose
\* close is at offset c: index..end is the match, text the matched text
\* (match[0]) and inner the text between the two (match[1]).
spanUpTo(str, open, close, o, c) ==
    IF c = -1 THEN null
    ELSE [ok |-> TRUE, index |-> o, end |-> c + Len(close),
          text |-> substring(str, o, c + Len(close)),
          inner |-> substring(str, o + Len(open), c)]

\* The same with open at offset o: the lazy quantifier stops at the nearest
\* close after it.
spanFrom(str, open, close, o) ==
    IF o = -1 THEN null
    ELSE spanUpTo(str, open, close, o, indexOf(str, close, o + Len(open)))

\* The leftmost match of  open [\s\S]*? close  in str.  It starts at the
\* first occurrence of open: when no close follows that one, none follows a
\* later one either.
matchSpan(str, open, close) == spanFrom(str, open, close, indexOf(str, open, 0))

\* The match, anchored at offset s, of the expression of stripCodeFences:
\*   fence (?:xml)? \s* ( [\s\S]*? OpenTag [\s\S]*? CloseTag [\s\S]*? ) \s* fence
\* The greedy (?:xml)? and \s* take all they can (a shorter choice never makes
\* a failing match succeed, since neither can swallow the "<" of the opening
\* tag); the lazy parts stop at the first opening tag, the nearest closing tag
\* after it and the first fence after that; the last \s* gives the group its
\* end before the blanks that precede that fence.  The operators below
\* follow the expression from its end to its beginning: g is the offset
\* where the group starts, o that of the opening tag, c the offset after the
\* closing tag and f that of the closing fence.
envelopeUpTo(str, s, g, c, f) ==
    IF f = -1 THEN null
    ELSE [ok |-> TRUE, index |-> s, end |-> f + Len(Fence),
          inner |-> substring(str, g, f - wsRunBack(str, f, c))]

envelopeAfterClose(str, s, g, c) ==
    IF c = -1 THEN null
    ELSE envelopeUpTo(str, s, g, c + Len(CloseTag),
                      indexOf(str, Fence, c + Len(CloseTag)))

envelopeAfterOpen(str, s, g, o) ==
    IF o = -1 THEN null
    ELSE envelopeAfterClose(str, s, g, indexOf(str, CloseTag, o + Len(OpenTag)))

\* (?:xml)? at offset x: the offset after it.
afterXml(str, x) == IF occursAt(str, XmlTag, x) THEN x + Len(XmlTag) ELSE x

\* \s* at offset x: the offset after it.
afterBlanks(str, x) == x + wsRun(str, x)

fencedEnvelopeFrom(str, s, g) == envelopeAfterOpen(str, s, g, indexOf(str, OpenTag, g))

fencedEnvelopeAt(str, s) ==
    IF ~occursAt(str, Fence, s) THEN null
    ELSE fencedEnvelopeFrom(str, s, afterBlanks(str, afterXml(str, s + Len(Fence))))

\* The leftmost match of that expression at or after offset from.
nextEnvelope(str, from) ==
    fencedEnvelopeAt(str,
        leastOr({s \in from..(Len(str) - Len(Fence)) : fencedEnvelopeAt(str, s).ok}, -1))

\* String.prototype.replace with the g flag and "$1": every match, left to
\* right and non-overlapping, is replaced by its group, from offset from on;
\* m is the next match.
RECURSIVE replaceFencedFrom(_, _)
replaceMatch(str, from, m) ==
    IF ~m.ok THEN substringFrom(str, from)
    ELSE substring(str, from, m.index) \o m.inner \o replaceFencedFrom(str, m.end)

replaceFencedFrom(str, from) == replaceMatch(str, from, nextEnvelope(str, from))

(***************************************************************************)
(* ActionBlockStreamer: the private helpers.                               *)
(***************************************************************************)

\* A slip of stripCodeFences: the replacement is the empty string, not the
\* group, so that a fenced envelope is removed with the block in it.
RECURSIVE stripCodeFencesDropsGroupFrom(_, _)
stripCodeFencesDropsGroupFrom(str, from) ==
    LET m == nextEnvelope(str, from)
    IN  IF ~m.ok THEN substringFrom(str, from)
        ELSE substring(str, from, m.index) \o stripCodeFencesDropsGroupFrom(str, m.end)

stripCodeFencesDropsGroup(str) == stripCodeFencesDropsGroupFrom(str, 0)

stripCodeFences(str) == replaceFencedFrom(str, 0)

\* afterBlock.match(/^\s*```/): the length of the match, 0 when there is none.
fenceMatch(afterBlock) ==
    IF occursAt(afterBlock, Fence, wsRun(afterBlock, 0))
    THEN wsRun(afterBlock, 0) + Len(Fence) ELSE 0

\* actualEndIdx, from writeToFileEnd.
actualEndIdx(str, writeToFileEnd) ==
    writeToFileEnd + fenceMatch(substringFrom(str, writeToFileEnd))

\* What findCompleteBlock returns for the match of the block expression in
\* the cleaned text: the block, and the end index computed in str itself.
blockInfoOf(str, match) ==
    IF ~match.ok THEN null
    ELSE [ok |-> TRUE, block |-> match.text,
          endIdx |-> actualEndIdx(str, indexOf(str, CloseTag, 0) + Len(CloseTag))]

\* A slip of findCompleteBlock: the block expression asks for one more
\* character after the closing tag, so that a block is found only once
\* text has followed it.
findCompleteBlockNeedsMore(str) ==
    LET cleaned == stripCodeFences(str)
    IN  blockInfoOf(str, matchSpan(substring(cleaned, 0, Len(cleaned) - 1),
                                   OpenTag, CloseTag))

findCompleteBlock(str) ==
    blockInfoOf(str, matchSpan(stripCodeFences(str), OpenTag, CloseTag))

\* JavaScript's undefined, where a string is expected: a value that no text
\* is equal to.
undefined == <<"undefined">>

\* Whether a string or undefined is falsy: !v.
falsy(v) == v = undefined \/ v = << >>

\* match ? match[1].trim() : undefined
trimmedGroup(match) == IF match.ok THEN trim(match.inner) ELSE undefined

\* The field values processChunk extracts from a block.
extractFields(block) ==
    [filePath |-> trimmedGroup(matchSpan(block, PathOpen, PathClose)),
     fileContent |-> trimmedGroup(matchSpan(block, ContentOpen, ContentClose))]


(***************************************************************************)
(* Chunks.  A chunk is a record: its payload is the content field; from    *)
(* and to stand for the chunk's other fields, which the object spread of   *)
(* a status chunk copies, and say which part of the received text the      *)
(* chunk carried.  A payload is a string, an array of items, absent        *)
(* (null or undefined), or another value, for which text is the string the *)
(* += operator turns it into and truthy is its truth value.                *)
(***************************************************************************)

stringPayload(str) ==
    [kind |-> "string", text |-> str, items |-> << >>, truthy |-> str # << >>]

arrayPayload(items) ==
    [kind |-> "array", text |-> << >>, items |-> items, truthy |-> TRUE]

absentPayload ==
    [kind |-> "absent", text |-> << >>, items |-> << >>, truthy |-> FALSE]

\* A payload that is neither a string nor an array nor absent, and is
\* truthy (a number but 0, true, an object): str is the string that the +=
\* of the buffer turns it into.
otherPayload(str) ==
    [kind |-> "other", text |-> str, items |-> << >>, truthy |-> TRUE]

\* Such a payload that is falsy (0, false, NaN): it is never appended.
falsyPayload ==
    [kind |-> "other", text |-> << >>, items |-> << >>, truthy |-> FALSE]

\* The items of an array payload: a text segment, a text segment whose text
\* is null, a segment of another type, and a null item.
textItem(str) == [isNull |-> FALSE, type |-> "text", hasText |-> TRUE, text |-> str]
textItemWithoutText == [isNull |-> FALSE, type |-> "text", hasText |-> FALSE, text |-> << >>]
imageItem == [isNull |-> FALSE, type |-> "image_url", hasText |-> FALSE, text |-> << >>]
nullItem == [isNull |-> TRUE, type |-> "", hasText |-> FALSE, text |-> << >>]

\* An item of an array payload that is not a segment (a string, a number):
\* reading its type gives undefined.
nonSegmentItem == [isNull |-> FALSE, type |-> "", hasText |-> FALSE, text |-> << >>]

\* The loop over the items of an array payload: reading item.type of a null
\* item throws a TypeError; a text item with a text adds it.
RECURSIVE concatTextItems(_, _)
concatTextItems(items, i) ==
    IF i > Len(items) THEN [threw |-> FALSE, chunkContent |-> << >>]
    ELSE IF items[i].isNull THEN [threw |-> TRUE, chunkContent |-> << >>]
    ELSE LET rest == concatTextItems(items, i + 1)
             here == IF items[i].type = "text" /\ items[i].hasText
                     THEN items[i].text ELSE << >>
         IN  [threw |-> rest.threw, chunkContent |-> here \o rest.chunkContent]

\* The first lines of processChunk: chunkContent, and whether computing it
\* threw.  truthy says whether the following if (chunkContent) appends.
normalize(chunk) ==
    IF chunk.content.kind = "array"
    THEN LET r == concatTextItems(chunk.content.items, 1)
         IN  [threw |-> r.threw, chunkContent |-> r.chunkContent,
              truthy |-> r.chunkContent # << >>]
    ELSE IF chunk.content.kind # "absent"
    THEN [threw |-> FALSE, chunkContent |-> chunk.content.text,
          truthy |-> chunk.content.truthy]
    ELSE [threw |-> FALSE, chunkContent |-> << >>, truthy |-> FALSE]

(***************************************************************************)
(* The outcomes of toolManager.callTool followed by                        *)
(* ToolResultFormatter.format: a formatted result, or an error raised by   *)
(* either.  An error carries its message (empty when it has none) and the  *)
(* string it converts to.                                                  *)
(***************************************************************************)

FormattedResults == { <<"o","k">> }

Errors ==
    { [message |-> <<"d","f">>, string |-> <<"E","r","r","o","r",":"," ","d","f">>],
      [message |-> << >>, string |-> <<"b","o","o","m">>] }

Outcomes ==
    { [kind |-> "formatted", text |-> t, err |-> [message |-> << >>, string |-> << >>]]
        : t \in FormattedResults }
    \cup { [kind |-> "raised", text |-> << >>, err |-> e] : e \in Errors }

\* err?.message || err
errorText(err) == IF err.message # << >> THEN err.message ELSE err.string

ErrorPrefix == <<"E","r","r","o","r",":"," ">>

\* The payload of the status chunk of an outcome.
statusText(outcome) ==
    IF outcome.kind = "formatted"
    THEN <<"\n">> \o outcome.text \o <<"\n">>
    ELSE <<"\n">> \o ErrorPrefix \o errorText(outcome.err) \o <<"\n">>


(***************************************************************************)
(* The streams the model delivers.  A stream is a text; the driver cuts it *)
(* into consecutive non-empty chunks at any offsets.                       *)
(***************************************************************************)

pathField(p) == PathOpen \o p \o PathClose
contentField(c) == ContentOpen \o c \o ContentClose
blockOf(body) == OpenTag \o body \o CloseTag
validBlock(p, c) == blockOf(pathField(p) \o contentField(c))

\* The greatest number of back-to-back blocks in one stream.
MaxBlocks == 2

\* The number of generators of one streamer that may exist at a time.
MaxGens == 2

BlockPaths == << <<"a">>, <<"b">>, <<"c">>, <<"d">> >>
BlockContents == << <<"h">>, <<"i">>, <<"j">>, <<"k">> >>

\* n valid blocks back to back, the i-th with the i-th path and content.
RECURSIVE blocksFrom(_, _)
blocksFrom(i, n) ==
    IF i > n THEN << >>
    ELSE validBlock(BlockPaths[i], BlockContents[i]) \o blocksFrom(i + 1, n)

\* The texts of the streams, by kind; n is the number of back-to-back blocks.
textOf(stream) ==
    CASE stream.kind = "OneBlock" -> blocksFrom(1, 1)
      [] stream.kind = "FencedXml" ->
             Fence \o XmlTag \o <<"\n">> \o blocksFrom(1, 1) \o <<"\n">> \o Fence
      [] stream.kind = "FencedPlain" -> Fence \o blocksFrom(1, 1) \o Fence
      [] stream.kind = "BackToBack" -> blocksFrom(1, stream.n)
      [] stream.kind = "NoPathThenBlock" ->
             blockOf(contentField(<<"h">>)) \o blockOf(pathField(<<"a">>))
      [] stream.kind = "BlankPathThenBlock" ->
             blockOf(pathField(<<" ">>)) \o blockOf(pathField(<<"a">>))
      [] stream.kind = "StrayCloseThenBlocks" ->
             CloseTag \o blockOf(pathField(<<"a">>)) \o blockOf(pathField(<<"b">>))
      [] stream.kind = "TextAroundBlock" -> <<"x">> \o blocksFrom(1, 1) \o <<"y">>
      [] stream.kind = "BlockWithoutContent" -> blockOf(pathField(<<"a">>))
      [] stream.kind = "ContentBeforePath" ->
             blockOf(contentField(<<"h">>) \o pathField(<<"a">>))
      [] stream.kind = "Unterminated" ->
             OpenTag \o pathField(<<"a">>) \o contentField(<<"h">>)
      [] stream.kind = "BlockThenUnterminated" ->
             blockOf(pathField(<<"a">>)) \o OpenTag \o pathField(<<"b">>)
      [] stream.kind = "BlankContent" ->
             blockOf(pathField(<<"a">>) \o contentField(<<" ">>))

StreamKinds ==
    { "OneBlock", "FencedXml", "FencedPlain", "NoPathThenBlock",
      "BlankPathThenBlock", "StrayCloseThenBlocks", "TextAroundBlock",
      "BlockWithoutContent", "ContentBeforePath", "Unterminated",
      "BlockThenUnterminated", "BlankContent" }

\* A stream arrives with string payloads or with array payloads throughout;
\* the model delivers every stream as strings and one also as arrays.
Streams ==
    { [kind |-> k, n |-> 0, format |-> "string"] : k \in StreamKinds }
    \cup { [kind |-> "BackToBack", n |-> n, format |-> "string"] : n \in 2..MaxBlocks }
    \cup { [kind |-> "OneBlock", n |-> 0, format |-> "array"] }

\* The payload that carries the text str in the given format.  An array
\* payload spreads the text over two text items around an item of another
\* type.
payloadOf(str, format) ==
    IF format = "string" THEN stringPayload(str)
    ELSE IF Len(str) = 1 THEN arrayPayload(<<textItem(str)>>)
    ELSE arrayPayload(<<textItem(substring(str, 0, 1)), imageItem,
                        textItem(substringFrom(str, 1))>>)

\* Payloads that carry no text.
TextlessPayloads ==
    { absentPayload, arrayPayload(<<imageItem>>),
      arrayPayload(<<textItemWithoutText>>), arrayPayload(<<nullItem>>) }

\* String(5) and String({}).
FiveText == <<"5">>
ObjectText == <<"[","o","b","j","e","c","t"," ","O","b","j","e","c","t","]">>

\* Payloads of an unexpected shape: the number 5, an object, the number 0, an
\* array that holds an item that is no segment, and an array that holds a
\* null item after a text segment.
MalformedPayloads ==
    { otherPayload(FiveText), otherPayload(ObjectText), falsyPayload,
      arrayPayload(<<nonSegmentItem>>),
      arrayPayload(<<textItem(<<"x">>), nullItem>>) }

(***************************************************************************)
(* FreeAgentChainRunner.getAvailableTools.  The ToolRegistry is outside    *)
(* the runner: what it answers is given.  enabled is the list that         *)
(* getEnabledTools returns for the allow-list of the settings, metadata    *)
(* what getToolMetadata returns for each tool name, and initialized tells  *)
(* whether getAllTools returns any tool.                                   *)
(***************************************************************************)

ToolNames == {"t1", "t2", "t3"}

\* The greatest number of tools that the registry reports as enabled.
MaxTools == 3

\* What getToolMetadata returns: undefined, or metadata whose isPlusOnly is
\* true, false or not set.
NoMetadata == [present |-> FALSE, isPlusOnly |-> "unset"]
Metadata == [present : {TRUE}, isPlusOnly : {"true", "false", "unset"}]

\* The sequences of at most n tool names.
RECURSIVE toolLists(_)
toolLists(n) ==
    IF n = 0 THEN { << >> }
    ELSE toolLists(n - 1)
             \cup { Append(l, t) : l \in {k \in toolLists(n - 1) : Len(k) = n - 1},
                                   t \in ToolNames }

Registries ==
    [initialized : BOOLEAN,
     enabled : toolLists(MaxTools),
     metadata : [ToolNames -> {NoMetadata} \cup Metadata]]

NoRegistry ==
    [initialized |-> FALSE, enabled |-> << >>,
     metadata |-> [t \in ToolNames |-> NoMetadata]]

\* A slip of keepsTool: meta && !meta.isPlusOnly, which drops a tool that
\* has no metadata.
keepsToolWithMetadata(meta) == meta.present /\ meta.isPlusOnly # "true"

\* The predicate of the filter: !meta?.isPlusOnly.
keepsTool(meta) == ~(meta.present /\ meta.isPlusOnly = "true")

\* Array.prototype.filter over the tools from the i-th on.
RECURSIVE filterTools(_, _, _)
filterTools(tools, metadata, i) ==
    IF i > Len(tools) THEN << >>
    ELSE (IF keepsTool(metadata[tools[i]]) THEN <<tools[i]>> ELSE << >>)
             \o filterTools(tools, metadata, i + 1)

\* getAvailableTools: the tools of the registry's list that the filter keeps.
getAvailableTools(reg) == filterTools(reg.enabled, reg.metadata, 1)

(***************************************************************************)
(* The state.                                                              *)
(***************************************************************************)

Gens == 1..MaxGens

VARIABLES
    stream,       \* the stream to deliver
    pos,          \* how much of text has been handed to processChunk
    buffer,       \* ActionBlockStreamer.buffer
    received,     \* the chunkContent of all chunks so far, concatenated
    pc,           \* per generator: where its body is suspended
    chunk,        \* per generator: the argument of processChunk
    blockInfo,    \* per generator: the block being dispatched
    trace,        \* per generator: what it has yielded, invoked and thrown
    invocations,  \* the calls of toolManager.callTool, in order
    skipped,      \* the spans of the blocks discarded for want of a path
    registry,     \* what the ToolRegistry answers to the runner
    availableTools  \* what getAvailableTools returned last

streamerVars == <<stream, pos, buffer, received, pc, chunk, blockInfo, trace,
                  invocations, skipped>>

toolVars == <<registry, availableTools>>

vars == <<streamerVars, toolVars>>

\* The text of the stream.
text == textOf(stream)

NoChunk == [content |-> absentPayload, from |-> 0, to |-> 0]

Init ==
    /\ stream \in Streams
    /\ pos = 0
    /\ buffer = << >>
    /\ received = << >>
    /\ pc = [g \in Gens |-> "idle"]
    /\ chunk = [g \in Gens |-> NoChunk]
    /\ blockInfo = [g \in Gens |-> null]
    /\ trace = [g \in Gens |-> << >>]
    /\ invocations = << >>
    /\ skipped = {}
    /\ registry = NoRegistry
    /\ availableTools = [returned |-> FALSE, tools |-> << >>]

\* A generator whose body has started and not finished.
Active(g) == pc[g] \in {"yieldedRaw", "awaiting", "yieldedStatus"}


(***************************************************************************)
(* processChunk.  The body of the async generator runs between the         *)
(* consumer's pulls; it is suspended at yield chunk (yieldedRaw), at the   *)
(* await of callTool (awaiting) and at the yield of a status chunk         *)
(* (yieldedStatus).                                                        *)
(***************************************************************************)

\* The span, in offsets of the received text, of the block that
\* findCompleteBlock matches in buf: the first opening tag of buf up to the
\* nearest closing tag after it.
spanIn(buf, base) ==
    LET m == matchSpan(buf, OpenTag, CloseTag)
    IN  IF m.ok THEN <<base + m.index, base + m.end>> ELSE <<-1, -1>>

\* A slip of appendToBuffer: the chunk's text replaces the buffer.
appendToBufferOverwrites(buf, n) == IF n.truthy THEN n.chunkContent ELSE buf

\* this.buffer += chunkContent, under if (chunkContent).
appendToBuffer(buf, n) == IF n.truthy THEN buf \o n.chunkContent ELSE buf

\* A slip of consume: the text of the block is taken out of the buffer
\* where it stands (buffer.replace(block, "")), whatever precedes it.
consumeByReplace(buf, info) ==
    LET at == indexOf(buf, info.block, 0)
    IN  IF at = -1 THEN substringFrom(buf, info.endIdx)
        ELSE substring(buf, 0, at) \o substringFrom(buf, at + Len(info.block))

\* A slip of consume: the buffer is emptied once a block has been handled.
consumeAll(buf, info) == << >>

\* this.buffer = this.buffer.substring(endIdx), for the block info found.
consume(buf, info) == substringFrom(buf, info.endIdx)

\* What the loop holds when it stops at a block with a path.
foundBlock(info, fields, span) ==
    [ok |-> TRUE, block |-> info.block, endIdx |-> info.endIdx,
     filePath |-> fields.filePath, fileContent |-> fields.fileContent,
     span |-> span]

\* The result of the loop once the block at span has been discarded.
afterSkip(span, rest) == [rest EXCEPT !.skipped = @ \cup {span}]

\* A slip of dispatchOrSkip: break, not continue, after a block without a
\* path.
dispatchOrBreak(buf, base, info, fields) ==
    IF falsy(fields.filePath)
    THEN [buffer |-> consume(buf, info), found |-> null,
          skipped |-> {spanIn(buf, base)}]
    ELSE [buffer |-> buf, found |-> foundBlock(info, fields, spanIn(buf, base)),
          skipped |-> {}]

\* The while loop up to its first await: blocks without a path are cut off
\* the buffer one after the other; the loop stops at the first block with a
\* path (found: its block, endIdx and fields) or when no block is complete.
RECURSIVE detectLoop(_, _)

\* The body of the loop for a block with its fields: without a path the block
\* is cut off the buffer and the loop continues; with one the loop stops.
dispatchOrSkip(buf, base, info, fields) ==
    IF falsy(fields.filePath)
    THEN afterSkip(spanIn(buf, base),
                   detectLoop(consume(buf, info),
                              base + (Len(buf) - Len(consume(buf, info)))))
    ELSE [buffer |-> buf, found |-> foundBlock(info, fields, spanIn(buf, base)),
          skipped |-> {}]

\* The test of the loop, for what findCompleteBlock returned.
whileBlock(buf, base, info) ==
    IF ~info.ok THEN [buffer |-> buf, found |-> null, skipped |-> {}]
    ELSE dispatchOrSkip(buf, base, info, extractFields(info.block))

detectLoop(buf, base) == whileBlock(buf, base, findCompleteBlock(buf))

\* A slip of callArgs: the content is passed as extracted, without the
\* || "" that turns undefined into the empty string.
callArgsRawContent(found) ==
    [path |-> found.filePath, content |-> found.fileContent,
     confirmation |-> FALSE, span |-> found.span]

\* The arguments of toolManager.callTool for a found block; the content is
\* fileContent || "".
callArgs(found) ==
    [path |-> found.filePath,
     content |-> IF falsy(found.fileContent) THEN << >> ELSE found.fileContent,
     confirmation |-> FALSE, span |-> found.span]

\* processChunk(c) and the first pull of its generator g: the payload is
\* normalized and appended to the buffer, and the chunk is yielded; a throw
\* while normalizing ends the generator.
FirstPull(g, c) ==
    LET n == normalize(c)
    IN  /\ chunk' = [chunk EXCEPT ![g] = c]
        /\ blockInfo' = [blockInfo EXCEPT ![g] = null]
        /\ IF n.threw
           THEN /\ pc' = [pc EXCEPT ![g] = "thrown"]
                /\ trace' = [trace EXCEPT ![g] = <<[ev |-> "throw"]>>]
                /\ UNCHANGED <<buffer, received>>
           ELSE /\ pc' = [pc EXCEPT ![g] = "yieldedRaw"]
                /\ trace' = [trace EXCEPT ![g] = <<[ev |-> "yield", chunk |-> c]>>]
                /\ buffer' = appendToBuffer(buffer, n)
                /\ received' = received \o n.chunkContent
        /\ UNCHANGED <<stream, invocations, skipped>>

\* The driver hands processChunk the next len characters of the stream.
NextTextChunk(g, len) ==
    /\ pos + len <= Len(text)
    /\ pos' = pos + len
    /\ FirstPull(g, [content |-> payloadOf(substring(text, pos, pos + len), stream.format),
                     from |-> Len(received), to |-> Len(received) + len])

\* The driver hands processChunk a chunk that carries no text.
NextTextlessChunk(g, payload) ==
    /\ pos' = pos
    /\ FirstPull(g, [content |-> payload,
                     from |-> Len(received), to |-> Len(received)])

\* The driver hands processChunk a chunk whose payload has an unexpected
\* shape.
NextMalformedChunk(g, payload) ==
    /\ pos' = pos
    /\ FirstPull(g, [content |-> payload,
                     from |-> Len(received),
                     to |-> Len(received) + Len(payload.text)])

\* A slip of bufferOnResume: the dispatched block is not cut off the buffer
\* after its status chunk.
bufferOnResumeKeepsBlock(g) == buffer

\* The buffer as the loop finds it when generator g is resumed: after a
\* status chunk the dispatched block is cut off first.
bufferOnResume(g) ==
    IF pc[g] = "yieldedStatus" THEN consume(buffer, blockInfo[g]) ELSE buffer

\* A slip of ResumeTo: the block is cut off the buffer when it is detected,
\* before the action is called.
ResumeToCutsEarly(g, r) ==
    /\ buffer' = IF r.found.ok THEN consume(r.buffer, r.found) ELSE r.buffer
    /\ skipped' = skipped \cup r.skipped
    /\ blockInfo' = [blockInfo EXCEPT ![g] = r.found]
    /\ IF r.found.ok
       THEN /\ pc' = [pc EXCEPT ![g] = "awaiting"]
            /\ invocations' = Append(invocations, callArgs(r.found))
            /\ trace' = [trace EXCEPT ![g] =
                            Append(@, [ev |-> "invoke", args |-> callArgs(r.found)])]
            /\ UNCHANGED chunk
       ELSE /\ pc' = [pc EXCEPT ![g] = "done"]
            /\ chunk' = [chunk EXCEPT ![g] = NoChunk]
            /\ trace' = [trace EXCEPT ![g] = << >>]
            /\ UNCHANGED invocations

\* The generator goes on to where the loop, with result r, leaves it: to its
\* next await, where callTool has been called, or to its end, where the
\* generator is finished and its chunk and its outputs are no longer held.
ResumeTo(g, r) ==
    /\ buffer' = r.buffer
    /\ skipped' = skipped \cup r.skipped
    /\ blockInfo' = [blockInfo EXCEPT ![g] = r.found]
    /\ IF r.found.ok
       THEN /\ pc' = [pc EXCEPT ![g] = "awaiting"]
            /\ invocations' = Append(invocations, callArgs(r.found))
            /\ trace' = [trace EXCEPT ![g] =
                            Append(@, [ev |-> "invoke", args |-> callArgs(r.found)])]
            /\ UNCHANGED chunk
       ELSE /\ pc' = [pc EXCEPT ![g] = "done"]
            /\ chunk' = [chunk EXCEPT ![g] = NoChunk]
            /\ trace' = [trace EXCEPT ![g] = << >>]
            /\ UNCHANGED invocations

\* The consumer pulls a generator suspended at a yield.
Resume(g) ==
    /\ pc[g] \in {"yieldedRaw", "yieldedStatus"}
    /\ ResumeTo(g, detectLoop(bufferOnResume(g),
                              Len(received) - Len(bufferOnResume(g))))
    /\ UNCHANGED <<stream, pos, received>>

\* A slip of Settle: the catch block logs the error and yields nothing, so
\* that the loop goes on to cut the block off and to look for the next.
SettleSwallowsError(g, outcome) ==
    /\ pc[g] = "awaiting"
    /\ IF outcome.kind = "formatted"
       THEN /\ pc' = [pc EXCEPT ![g] = "yieldedStatus"]
            /\ trace' = [trace EXCEPT ![g] =
                            Append(@, [ev |-> "yield",
                                       chunk |-> [chunk[g] EXCEPT
                                           !.content = stringPayload(statusText(outcome))],
                                       settled |-> outcome,
                                       span |-> blockInfo[g].span])]
            /\ UNCHANGED <<stream, pos, buffer, received, chunk, blockInfo,
                           invocations, skipped>>
       ELSE /\ ResumeTo(g, detectLoop(consume(buffer, blockInfo[g]),
                                      Len(received) - Len(consume(buffer, blockInfo[g]))))
            /\ UNCHANGED <<stream, pos, received>>

\* The awaited call settles: its result is formatted, or the error of the
\* call or of the formatter is caught; either way a status chunk, a copy of
\* the chunk with a new payload, is yielded.  The trace also notes the
\* outcome and the span of the block the status chunk is for.
Settle(g, outcome) ==
    /\ pc[g] = "awaiting"
    /\ pc' = [pc EXCEPT ![g] = "yieldedStatus"]
    /\ trace' = [trace EXCEPT ![g] =
                    Append(@, [ev |-> "yield",
                               chunk |-> [chunk[g] EXCEPT
                                   !.content = stringPayload(statusText(outcome))],
                               settled |-> outcome,
                               span |-> blockInfo[g].span])]
    /\ UNCHANGED <<stream, pos, buffer, received, chunk, blockInfo,
                   invocations, skipped>>

\* The driver of the stream: one chunk at a time, each generator pulled to
\* its end before processChunk is called again.
NoneActive == \A g \in Gens : ~Active(g)

\* The driver hands processChunk the next chunk of the stream's text.
DeliverText ==
    \E len \in 1..Len(text) :
        NoneActive /\ NextTextChunk(1, len) /\ UNCHANGED toolVars

\* The driver hands processChunk a chunk without text.
DeliverTextless ==
    \E payload \in TextlessPayloads :
        NoneActive /\ NextTextlessChunk(1, payload) /\ UNCHANGED toolVars

\* The consumer pulls a suspended generator.
Pull == \E g \in Gens : Resume(g) /\ UNCHANGED toolVars

\* An awaited call of the action settles.
ActionSettles ==
    \E g \in Gens, outcome \in Outcomes : Settle(g, outcome) /\ UNCHANGED toolVars

Next == DeliverText \/ DeliverTextless \/ Pull \/ ActionSettles

Spec == Init /\ [][Next]_vars

(***************************************************************************)
(* The stream with chunks of unexpected payload shapes in it.  The driver  *)
(* is that of Spec; it hands over such chunks for as long as none of them  *)
(* has added text to the received text.                                    *)
(***************************************************************************)

PayloadStreams ==
    { s \in Streams : s.kind \in {"OneBlock", "Unterminated"} /\ s.format = "string" }

PayloadInit == Init /\ stream \in PayloadStreams

\* The driver hands processChunk a chunk of an unexpected payload shape.
DeliverMalformed ==
    \E payload \in MalformedPayloads :
        /\ NoneActive /\ Len(received) = pos /\ NextMalformedChunk(1, payload)
        /\ UNCHANGED toolVars

PayloadNext == DeliverText \/ DeliverTextless \/ DeliverMalformed \/ Pull \/ ActionSettles

PayloadSpec == PayloadInit /\ [][PayloadNext]_vars

(***************************************************************************)
(* Overlapping calls.  Nothing in processChunk keeps a caller from calling *)
(* it again while the generator of an earlier call is suspended: this      *)
(* driver does so, with the chunks of the stream in their order, each call *)
(* taking the first generator that is not in use.  It cuts the stream at   *)
(* few offsets only, those around the ends of the blocks.                  *)
(***************************************************************************)

ConcurrentStreams ==
    { s \in Streams : s.kind \in {"OneBlock", "BackToBack"} /\ s.format = "string" }

ConcurrentInit == Init /\ stream \in ConcurrentStreams

\* The first generator that is not suspended, 0 when all are.
freeGen == leastOr({g \in Gens : ~Active(g)}, 0)

\* The offsets at which this driver cuts the stream: the end of a closing
\* tag, the offset one before it, and the end of the stream.
ConcurrentCuts ==
    {c \in 1..Len(text) :
        \/ c = Len(text)
        \/ occursAt(text, CloseTag, c - Len(CloseTag))
        \/ occursAt(text, CloseTag, c + 1 - Len(CloseTag))}

\* The driver hands processChunk the next chunk of the stream's text,
\* whether or not an earlier generator is suspended.
StartText ==
    \E cut \in ConcurrentCuts :
        /\ freeGen # 0 /\ cut > pos /\ NextTextChunk(freeGen, cut - pos)
        /\ UNCHANGED toolVars

ConcurrentNext == StartText \/ Pull \/ ActionSettles

ConcurrentSpec == ConcurrentInit /\ [][ConcurrentNext]_vars

(***************************************************************************)
(* The driver of Spec with a consumer that goes on pulling a suspended     *)
(* generator, and an action whose every invocation settles.                *)
(***************************************************************************)

\* The step that a pull makes, told by where it leaves the generator: at
\* its next await or at its end.  The body of a generator suspended at a
\* yield always runs on when pulled, so this step is possible exactly when
\* Pull is, and it is taken exactly when Pull is.
PullTaken ==
    \E g \in Gens :
        /\ pc[g] \in {"yieldedRaw", "yieldedStatus"}
        /\ pc' \in {[pc EXCEPT ![g] = "awaiting"], [pc EXCEPT ![g] = "done"]}

FairSpec == Spec /\ WF_pc(PullTaken) /\ WF_vars(ActionSettles)

(***************************************************************************)
(* The consumer that may stop.  A consumer may leave a generator at one of *)
(* its yields and never pull it again (it breaks out of its loop over the  *)
(* outputs): the body of the generator does not run on.  The driver is     *)
(* that of Spec otherwise.                                                 *)
(***************************************************************************)

\* The greatest number of invocations after which the consumer may still
\* stop: every stop at a status chunk leaves a block to dispatch again.
MaxDispatches == 2

AbandonStreams ==
    { s \in Streams : s.kind \in {"OneBlock", "TextAroundBlock", "BackToBack"}
                        /\ s.format = "string" }

AbandonInit == Init /\ stream \in AbandonStreams

\* The consumer leaves generator g at the yield where it is suspended; the
\* chunk and the outputs of the call are no longer held.
Abandon(g) ==
    /\ pc[g] \in {"yieldedRaw", "yieldedStatus"}
    /\ Len(invocations) <= MaxDispatches
    /\ pc' = [pc EXCEPT ![g] = "abandoned"]
    /\ chunk' = [chunk EXCEPT ![g] = NoChunk]
    /\ trace' = [trace EXCEPT ![g] = << >>]
    /\ UNCHANGED <<stream, pos, buffer, received, blockInfo, invocations, skipped>>

\* The consumer stops pulling a suspended generator.
ConsumerStops == \E g \in Gens : Abandon(g) /\ UNCHANGED toolVars

AbandonNext == DeliverText \/ DeliverTextless \/ Pull \/ ActionSettles \/ ConsumerStops

AbandonSpec == AbandonInit /\ [][AbandonNext]_vars

(***************************************************************************)
(* The runner asks for its tools.                                          *)
(***************************************************************************)

ToolInit ==
    /\ stream = [kind |-> "OneBlock", n |-> 0, format |-> "string"]
    /\ pos = 0
    /\ buffer = << >>
    /\ received = << >>
    /\ pc = [g \in Gens |-> "idle"]
    /\ chunk = [g \in Gens |-> NoChunk]
    /\ blockInfo = [g \in Gens |-> null]
    /\ trace = [g \in Gens |-> << >>]
    /\ invocations = << >>
    /\ skipped = {}
    /\ registry \in Registries
    /\ availableTools = [returned |-> FALSE, tools |-> << >>]

\* A call of getAvailableTools: a registry without tools is initialized
\* with the builtin tools first; the filtered list is returned.
GetAvailableTools ==
    /\ registry' = [registry EXCEPT !.initialized = TRUE]
    /\ availableTools' = [returned |-> TRUE, tools |-> getAvailableTools(registry)]
    /\ UNCHANGED streamerVars

ToolNext == GetAvailableTools

ToolSpec == ToolInit /\ [][ToolNext]_vars


(***************************************************************************)
(* The claims.                                                             *)
(***************************************************************************)

IsSuffix(a, b) ==
    Len(a) <= Len(b) /\ SubSeq(b, Len(b) - Len(a) + 1, Len(b)) = a

IsPrefix(a, b) == Len(a) <= Len(b) /\ SubSeq(b, 1, Len(a)) = a

\* A generator that processChunk has started and that still holds its chunk.
Started(g) == pc[g] \in {"yieldedRaw", "awaiting", "yieldedStatus", "thrown"}

\* The offset, in the received text, of the first character of the buffer.
bufferBase == Len(received) - Len(buffer)

\* What an invocation passes to the action.
argsOf(inv) ==
    [path |-> inv.path, content |-> inv.content, confirmation |-> inv.confirmation]

\* The invocation of the first block of the streams: path a, content h.
firstBlockArgs ==
    [path |-> BlockPaths[1], content |-> BlockContents[1], confirmation |-> FALSE]

\* The stream has been delivered whole and no generator is unfinished.
Delivered == pos = Len(text) /\ NoneActive

\* C1 (pass-through): in every processChunk call, whatever the payload, the
\* first output is the input chunk itself, it is yielded once only, and it
\* precedes every invocation and every status chunk of the call.
C1_PassThrough ==
    \A g \in Gens :
        Started(g) =>
            /\ trace[g] # << >>
            /\ trace[g][1] = [ev |-> "yield", chunk |-> chunk[g]]
            /\ \A i \in 2..Len(trace[g]) :
                   trace[g][i].ev = "yield" => trace[g][i].chunk # chunk[g]

\* C2 (no double-dispatch): each opening-tag-to-nearest-closing-tag span of
\* the stream causes at most one invocation of the action.
C2_NoDoubleDispatch ==
    \A i, j \in 1..Len(invocations) :
        i # j => invocations[i].span # invocations[j].span

\* C3 (split-boundary detection): for the stream that is one valid block,
\* every cut into chunks gives the invocations of the delivery in one chunk:
\* none before the closing tag is complete, then exactly one, with the
\* block's path and content, made in the call of the chunk that completes
\* the closing tag.
C3_SplitBoundary ==
    stream.kind = "OneBlock" =>
        /\ Len(invocations) <= 1
        /\ \A i \in 1..Len(invocations) : argsOf(invocations[i]) = firstBlockArgs
        /\ pos < Len(text) => invocations = << >>
        /\ Delivered => Len(invocations) = 1
        /\ \A g \in Gens :
               pc[g] \in {"awaiting", "yieldedStatus"} =>
                   /\ chunk[g].from < Len(text)
                   /\ chunk[g].to = Len(text)
                   /\ Len(invocations) = 1

\* C3's case: the one block is dispatched in the call of a chunk that starts
\* inside the closing tag, after earlier chunks brought the rest.
C3_Witness ==
    /\ stream.kind = "OneBlock"
    /\ \E g \in Gens :
           /\ pc[g] = "awaiting"
           /\ chunk[g].from > Len(text) - Len(CloseTag)
           /\ argsOf(invocations[1]) = firstBlockArgs

\* C4 (fence tolerance): the block between an opening fence, with or
\* without the xml tag, and a closing fence causes the invocations of the
\* bare block, in one chunk or cut into chunks: none until the closing tag
\* is complete, then exactly one, with the block's path and content.
C4_FenceTolerance ==
    stream.kind \in {"FencedXml", "FencedPlain"} =>
        LET closeEnd == indexOf(text, CloseTag, 0) + Len(CloseTag)
        IN  /\ Len(invocations) <= 1
            /\ \A i \in 1..Len(invocations) : argsOf(invocations[i]) = firstBlockArgs
            /\ pos < closeEnd => invocations = << >>
            /\ (pos >= closeEnd /\ NoneActive) => Len(invocations) = 1

\* C4's case: the xml-fenced block arrives in one chunk and is dispatched.
C4_Witness ==
    /\ stream.kind = "FencedXml"
    /\ \E g \in Gens :
           /\ pc[g] = "awaiting"
           /\ chunk[g].from = 0
           /\ chunk[g].to = Len(text)
           /\ argsOf(invocations[1]) = firstBlockArgs

\* The paths of the invocations, in order.
pathsOf(invs) == [i \in 1..Len(invs) |-> invs[i].path]

\* The streams that hold several valid blocks: the offsets at which their
\* blocks end, and the paths of their blocks, left to right.
SeveralBlocks == stream.kind \in {"BackToBack", "StrayCloseThenBlocks"}

blockEnds ==
    IF stream.kind = "BackToBack"
    THEN [i \in 1..stream.n |-> Len(blocksFrom(1, i))]
    ELSE LET one == Len(blockOf(pathField(<<"a">>)))
         IN  <<Len(CloseTag) + one, Len(CloseTag) + 2 * one>>

blockPaths == [i \in 1..Len(blockEnds) |-> BlockPaths[i]]

\* The paths of the blocks that are complete once upTo characters arrived.
completePaths(upTo) ==
    SubSeq(blockPaths, 1, Cardinality({i \in 1..Len(blockEnds) : blockEnds[i] <= upTo}))

\* C5 (multi-block order): the blocks of a stream of several valid blocks
\* are dispatched once each, left to right, every block in the call of the
\* chunk that completes it: a call dispatches the blocks its chunk
\* completes, and a block only partly received waits for a later call.
C5_MultiBlockOrder ==
    SeveralBlocks =>
        /\ IsPrefix(pathsOf(invocations), blockPaths)
        /\ NoneActive => pathsOf(invocations) = completePaths(pos)

\* C5 on the streams of back-to-back blocks with nothing before them.
C5_OnCleanStreams == stream.kind = "BackToBack" => C5_MultiBlockOrder

\* C6 (missing-path discard): a complete block without a path, or with a
\* blank one, causes no invocation and no status chunk and no throw, is cut
\* off the buffer, and a later complete block in the buffer is dispatched
\* by the same call.
C6_MissingPathDiscard ==
    /\ \A sp \in skipped :
           /\ \A i \in 1..Len(invocations) : invocations[i].span # sp
           /\ \A g \in Gens : \A i \in 1..Len(trace[g]) :
                  (trace[g][i].ev = "yield" /\ i > 1) => trace[g][i].span # sp
           /\ bufferBase >= sp[2]
    /\ \A g \in Gens : pc[g] = "thrown" => normalize(chunk[g]).threw
    /\ stream.kind \in {"NoPathThenBlock", "BlankPathThenBlock"} =>
           /\ Cardinality(skipped) <= 1
           /\ LET closeEnd == indexOf(text, CloseTag, 0) + Len(CloseTag)
              IN  (skipped = {}) =
                      \/ pos < closeEnd
                      \/ \E g \in Gens : /\ pc[g] = "yieldedRaw"
                                          /\ chunk[g].from < closeEnd
           /\ Delivered =>
                  /\ Len(invocations) = 1
                  /\ invocations[1].path = <<"a">>
                  /\ invocations[1].content = << >>

\* C6's case: one chunk brings a block without a path and a valid block;
\* the first has been discarded and the second is being dispatched.
C6_Witness ==
    /\ stream.kind = "NoPathThenBlock"
    /\ skipped # {}
    /\ \E g \in Gens :
           /\ pc[g] = "awaiting"
           /\ chunk[g].from = 0
           /\ chunk[g].to = Len(text)
           /\ blockInfo[g].filePath = <<"a">>

\* A status event of a trace: a yield after the first.
IsStatus(g, i) == i > 1 /\ i <= Len(trace[g]) /\ trace[g][i].ev = "yield"

\* The message of an error, or the string of a thrown value without one.
messageOf(err) == IF err.message # << >> THEN err.message ELSE err.string

\* C7 (dispatch failure is data): when the action or the formatter raises
\* for a block, the generator does not throw; the block gets exactly one
\* status chunk, whose text is a line break, "Error: ", the message and a
\* line break; the block is then cut off the buffer and is not dispatched
\* again; later complete blocks are still dispatched.
C7_DispatchFailureIsData ==
    /\ \A g \in Gens : \A i \in 1..Len(trace[g]) :
           (IsStatus(g, i) /\ trace[g][i].settled.kind = "raised") =>
               /\ pc[g] # "thrown"
               /\ trace[g][i].chunk.content = stringPayload(
                      <<"\n">> \o ErrorPrefix
                          \o messageOf(trace[g][i].settled.err) \o <<"\n">>)
               /\ trace[g][i - 1].ev = "invoke"
               /\ trace[g][i - 1].args.span = trace[g][i].span
               /\ i < Len(trace[g]) =>
                      /\ trace[g][i + 1].ev = "invoke"
                      /\ bufferBase >= trace[g][i].span[2]
               /\ \A j \in (i + 1)..Len(trace[g]) :
                      trace[g][j].ev = "invoke" =>
                          trace[g][j].args.span # trace[g][i].span
    /\ (stream.kind = "BackToBack" /\ NoneActive) =>
           pathsOf(invocations) = completePaths(pos)

\* C7 on the streams without a closing tag ahead of their first block.
C7_OnCleanStreams == stream.kind # "StrayCloseThenBlocks" => C7_DispatchFailureIsData

\* C8 (status ordering), as claimed: the status chunk of a block is emitted
\* before any output chunk that carries text located after the block's
\* closing tag, also when that text follows the tag in the same chunk.
C8_StatusBeforeFollowingText ==
    \A g \in Gens : \A j \in 1..Len(trace[g]) :
        IsStatus(g, j) => trace[g][1].chunk.to <= trace[g][j].span[2]

\* C8 (status ordering), amended: a block is dispatched, and its status
\* chunk emitted, in the call of the chunk that completes its closing tag,
\* after that chunk itself (with whatever text it carries after the tag)
\* and so before every chunk of a later call, that is, before every chunk
\* whose text lies wholly after the closing tag.
C8_StatusBeforeLaterChunks ==
    \A g \in Gens : \A j \in 1..Len(trace[g]) :
        IsStatus(g, j) =>
            /\ trace[g][1] = [ev |-> "yield", chunk |-> chunk[g]]
            /\ chunk[g].from < trace[g][j].span[2]
            /\ trace[g][j].span[2] <= chunk[g].to
            /\ trace[g][j].chunk.from = chunk[g].from
            /\ trace[g][j].chunk.to = chunk[g].to

\* C8's case: a status chunk for a block whose closing tag is followed by
\* more text in its chunk.
C8_Witness ==
    \E g \in Gens : \E j \in 1..Len(trace[g]) :
        /\ IsStatus(g, j)
        /\ chunk[g].to > trace[g][j].span[2]
        /\ pc[g] = "yieldedStatus"

\* C9 (buffer suffix): the buffer is always a suffix of the concatenation
\* of the text of the chunks received so far, and a step changes it only
\* by appending the text of the new chunk or by dropping a prefix.
C9_BufferSuffix ==
    /\ [](IsSuffix(buffer, received))
    /\ [][ \/ buffer' = buffer \o SubSeq(received', Len(received) + 1, Len(received'))
           \/ received' = received /\ IsSuffix(buffer', buffer) ]_vars

\* C9's case: after a dispatch the buffer is a non-empty proper suffix of
\* what was received.
C9_Witness ==
    /\ Len(invocations) > 0
    /\ NoneActive
    /\ buffer # << >>
    /\ Len(buffer) < Len(received)
    /\ IsSuffix(buffer, received)

\* C10 (atomic consumption of the envelope): the buffer update that
\* consumes a dispatched block removes everything up to and including the
\* block's own closing tag and the fence that follows it; once a fenced
\* block has been dispatched and its envelope received whole, however it
\* was cut into chunks, the buffer holds nothing of it.
C10_AtomicConsumption ==
    /\ \A g \in Gens : \A i \in 1..Len(trace[g]) :
           (IsStatus(g, i) /\ i < Len(trace[g])) =>
               bufferBase >= trace[g][i].span[2]
    /\ NoneActive =>
           \A i \in 1..Len(invocations) : bufferBase >= invocations[i].span[2]
    /\ (stream.kind \in {"FencedXml", "FencedPlain"} /\ Delivered) =>
           buffer = << >>

\* The second half of C10 alone: the fenced streams, delivered whole, leave
\* nothing in the buffer.
C10_FencedEnvelopeGone ==
    (stream.kind \in {"FencedXml", "FencedPlain"} /\ Delivered) => buffer = << >>

\* A payload that is neither a string nor an array of well-formed segments.
Unexpected(payload) ==
    \/ payload.kind \in {"absent", "other"}
    \/ /\ payload.kind = "array"
       /\ \E i \in 1..Len(payload.items) :
              payload.items[i].isNull \/ payload.items[i].type = ""

\* The step is a call of processChunk with the first pull of generator g.
Called(g) == ~Active(g) /\ pc'[g] \in {"yieldedRaw", "thrown"}

\* C11 (unexpected payload shape): a call of processChunk with a chunk whose
\* payload is neither a string nor an array of well-formed segments leaves
\* the buffer as it is, raises nothing and yields the chunk as it is.
C11_UnexpectedPayload ==
    [][\A g \in Gens :
           (Called(g) /\ Unexpected(chunk'[g].content)) =>
               /\ buffer' = buffer
               /\ pc'[g] = "yieldedRaw"
               /\ trace'[g] = <<[ev |-> "yield", chunk |-> chunk'[g]]>>]_vars

\* The part of C11 that the code keeps: an absent payload, a falsy one and
\* an array whose items are objects leave the buffer as it is and the chunk
\* is yielded.
C11_OnHarmlessShapes ==
    [][\A g \in Gens :
           (/\ Called(g)
            /\ Unexpected(chunk'[g].content)
            /\ ~chunk'[g].content.truthy \/ chunk'[g].content.kind = "array"
            /\ \A i \in 1..Len(chunk'[g].content.items) :
                   ~chunk'[g].content.items[i].isNull) =>
               /\ buffer' = buffer
               /\ pc'[g] = "yieldedRaw"
               /\ trace'[g] = <<[ev |-> "yield", chunk |-> chunk'[g]]>>]_vars

\* The offset, in the text of the stream, of the first opening tag that has
\* no closing tag after it; -1 when there is none.
unterminatedAt ==
    leastOr({o \in 0..Len(text) :
                occursAt(text, OpenTag, o) /\ indexOf(text, CloseTag, o) = -1}, -1)

\* C12 (unterminated block): when the stream ends with an opening tag that
\* no closing tag follows, no invocation and no status chunk is for a
\* block that starts at that tag, and what has been received from that
\* tag on is at the end of the buffer, also after the last call has
\* completed.
C12_UnterminatedBlock ==
    unterminatedAt # -1 =>
        /\ \A i \in 1..Len(invocations) : invocations[i].span[2] <= unterminatedAt
        /\ \A g \in Gens : \A i \in 1..Len(trace[g]) :
               IsStatus(g, i) => trace[g][i].span[2] <= unterminatedAt
        /\ Len(received) > unterminatedAt =>
               IsSuffix(substringFrom(received, unterminatedAt), buffer)
        /\ Delivered => IsSuffix(substringFrom(text, unterminatedAt), buffer)

\* C12's case: the block before the unterminated one has been dispatched
\* and cut off, the stream is at its end, and the buffer holds the
\* unterminated block.
C12_Witness ==
    /\ stream.kind = "BlockThenUnterminated"
    /\ Delivered
    /\ Len(invocations) = 1
    /\ buffer = substringFrom(text, unterminatedAt)
    /\ buffer # << >>

\* C13 (invocation arguments): every invocation has confirmation disabled,
\* a path that is a non-empty string and a content that is a string; a
\* block with a path and without a content field, or with a blank one, is
\* dispatched, once, with the empty string as its content.
C13_InvocationArguments ==
    /\ \A i \in 1..Len(invocations) :
           /\ invocations[i].confirmation = FALSE
           /\ ~falsy(invocations[i].path)
           /\ invocations[i].content # undefined
    /\ stream.kind \in {"BlockWithoutContent", "BlankContent"} =>
           /\ \A i \in 1..Len(invocations) :
                  argsOf(invocations[i]) =
                      [path |-> <<"a">>, content |-> << >>, confirmation |-> FALSE]
           /\ Delivered => Len(invocations) = 1

\* C13's case: the block without a content field has been dispatched, with
\* the empty string as its content.
C13_Witness ==
    /\ stream.kind = "BlockWithoutContent"
    /\ \E g \in Gens :
           /\ pc[g] = "awaiting"
           /\ blockInfo[g].fileContent = undefined
           /\ invocations = <<[path |-> <<"a">>, content |-> << >>,
                               confirmation |-> FALSE, span |-> <<0, Len(text)>>]>>

\* The text of the block that invocation inv is for.
blockTextOf(inv) == substring(received, inv.span[1], inv.span[2])

\* C14 (fixed field order): in the text of every dispatched block that has a
\* content field, the path field from which the path comes ends before that
\* content field starts; a block with its content field before its path
\* field is not dispatched with the two values.
C14_FixedFieldOrder ==
    \A i \in 1..Len(invocations) :
        matchSpan(blockTextOf(invocations[i]), ContentOpen, ContentClose).ok =>
            /\ matchSpan(blockTextOf(invocations[i]), PathOpen, PathClose).ok
            /\ matchSpan(blockTextOf(invocations[i]), PathOpen, PathClose).end
                   <= matchSpan(blockTextOf(invocations[i]), ContentOpen, ContentClose).index

\* The part of C14 that the code keeps: on the streams whose blocks have the
\* path field first, the values passed are those of the fields in that order.
C14_OnOrderedBlocks ==
    stream.kind # "ContentBeforePath" => C14_FixedFieldOrder

\* C15 (no parallel processing on one instance): a call of processChunk made
\* while the generator of an earlier call is suspended leaves the buffer as
\* it is, and at most one dispatch is in flight.
C15_NoParallelProcessing ==
    [][/\ \A g \in Gens :
              (Called(g) /\ \E h \in Gens \ {g} : Active(h)) => buffer' = buffer
       /\ Cardinality({g \in Gens : pc'[g] = "awaiting"}) <= 1]_vars

\* The second part of C15 alone: at most one dispatch is in flight.
C15_OneDispatchInFlight == Cardinality({g \in Gens : pc[g] = "awaiting"}) <= 1

\* What holds of overlapping calls under the driver of Spec, which makes
\* none: at most one generator is suspended at a time.
C15_UnderSequentialDriver ==
    Cardinality({g \in Gens : Active(g)}) <= 1

\* A measure of what generator g has left to do: it falls with every step
\* of the generator as long as every cut shortens the buffer.
remaining(g) ==
    3 * Len(buffer)
        + (CASE pc[g] = "yieldedRaw" -> 3
             [] pc[g] = "awaiting" -> 2
             [] pc[g] = "yieldedStatus" -> 1
             [] OTHER -> 0)

\* The buffer, and what is left of it after each offset at which a cut can
\* end: after a closing tag or after a fence.
loopBuffers ==
    { substringFrom(buffer, k) :
        k \in {j \in 0..Len(buffer) :
                  \/ j = 0
                  \/ occursAt(buffer, CloseTag, j - Len(CloseTag))
                  \/ occursAt(buffer, Fence, j - Len(Fence))} }

\* An iteration of the loop on the text buf, dispatch or discard, leaves a
\* shorter text.
IterationShortens(buf) ==
    findCompleteBlock(buf).ok =>
        Len(consume(buf, findCompleteBlock(buf))) < Len(buf)

\* C16 (termination): a generator that is pulled for as long as it is
\* suspended, with an action whose invocations all settle, comes to its
\* end; every step of it lowers the measure of what it has left to do, the
\* pull that follows a status chunk leaves a shorter buffer, and an
\* iteration of the loop on the buffer, or on what earlier iterations leave
\* of it, leaves a shorter text.
C16_Termination ==
    /\ [][\A g \in Gens :
              /\ (Active(g) /\ pc'[g] # pc[g]) => remaining(g)' < remaining(g)
              /\ (pc[g] = "yieldedStatus" /\ pc'[g] # "yieldedStatus") =>
                     Len(buffer') < Len(buffer)]_vars
    /\ [](\A buf \in loopBuffers : IterationShortens(buf))
    /\ \A g \in Gens : Active(g) ~> ~Active(g)

\* C16's case: a generator has come to its end after two dispatches and a
\* discarded block were cut off the buffer in its call.
C16_Witness ==
    /\ stream.kind = "BackToBack"
    /\ pc[1] = "done"
    /\ Len(invocations) = 2
    /\ invocations[1].span[1] = 0
    /\ invocations[2].span[2] = Len(text)
    /\ buffer = << >>

\* C17 (one outcome per invocation, strictly sequential): in a call, after
\* the input chunk, invocations and status chunks alternate, invocation
\* first; each status chunk is for the block of the invocation before it
\* and carries the outcome with which that invocation settled; the next
\* invocation comes after it.  So while the call awaits there is one
\* invocation more than status chunks, and at a status chunk, the last
\* point before the call ends, there are as many of the one as of the other.
C17_StrictAlternation ==
    \A g \in Gens :
        Active(g) =>
            /\ Len(trace[g]) >= 1
            /\ trace[g][1] = [ev |-> "yield", chunk |-> chunk[g]]
            /\ \A i \in 2..Len(trace[g]) :
                   IF i % 2 = 0
                   THEN trace[g][i].ev = "invoke"
                   ELSE /\ IsStatus(g, i)
                        /\ trace[g][i].settled \in Outcomes
                        /\ trace[g][i].chunk.content =
                               stringPayload(statusText(trace[g][i].settled))
                        /\ trace[g][i].span = trace[g][i - 1].args.span
            /\ pc[g] = "yieldedRaw" => Len(trace[g]) = 1
            /\ pc[g] = "awaiting" => Len(trace[g]) % 2 = 0
            /\ pc[g] = "yieldedStatus" => Len(trace[g]) % 2 = 1 /\ Len(trace[g]) >= 3

\* C17's case: one call has made two invocations, the first failed and the
\* second succeeded, each followed by its status chunk.
C17_Witness ==
    \E g \in Gens :
        /\ pc[g] = "yieldedStatus"
        /\ Len(trace[g]) = 5
        /\ trace[g][3].settled.kind = "raised"
        /\ trace[g][5].settled.kind = "formatted"
        /\ trace[g][2].args.span # trace[g][4].args.span

\* C18 (quiescence): whenever the generator of a call has been pulled to
\* its end and no call is under way, the buffer with its fenced envelopes
\* stripped has no opening tag with a closing tag after it.
C18_Quiescence ==
    ((\E g \in Gens : pc[g] = "done") /\ NoneActive) =>
        ~matchSpan(stripCodeFences(buffer), OpenTag, CloseTag).ok

\* C18's case: a call has ended after a block was dispatched and cut off,
\* and the text that followed the block waits in the buffer.
C18_Witness ==
    /\ stream.kind = "TextAroundBlock"
    /\ Delivered
    /\ pc[1] = "done"
    /\ Len(invocations) = 1
    /\ buffer = <<"y">>

\* The block that generator g has dispatched is the first complete block of
\* the buffer, whole.
HoldsDispatchedBlock(g) ==
    /\ blockInfo[g].ok
    /\ findCompleteBlock(buffer) =
           [ok |-> TRUE, block |-> blockInfo[g].block, endIdx |-> blockInfo[g].endIdx]
    /\ bufferBase <= blockInfo[g].span[1]
    /\ blockInfo[g].span[2] <= Len(received)

\* C19 (late buffer advance): while the action is in flight and while the
\* status chunk is pending, the buffer holds the whole dispatched block; no
\* step changes the buffer between the detection of the block and the pull
\* that follows the status chunk, and that pull cuts it; when the consumer
\* stops at the status chunk, the buffer is left as it is, with the block in
\* it for the next call.
C19_LateBufferAdvance ==
    /\ [](\A g \in Gens :
              /\ pc[g] \in {"awaiting", "yieldedStatus"} => HoldsDispatchedBlock(g)
              /\ (pc[g] = "abandoned" /\ blockInfo[g].ok) => HoldsDispatchedBlock(g))
    /\ [][\A g \in Gens :
              /\ pc[g] = "awaiting" => buffer' = buffer
              /\ (pc[g] = "yieldedStatus" /\ pc'[g] = "abandoned") => buffer' = buffer
              /\ (pc[g] = "yieldedStatus" /\ pc'[g] \in {"awaiting", "done"}) =>
                     /\ Len(buffer') < Len(buffer)
                     /\ IsSuffix(buffer', buffer)]_vars

\* C19's case: the consumer stopped at the status chunk of the one block of
\* the stream, and the next call has found the block in the buffer and
\* dispatched it again.
C19_Witness ==
    /\ stream.kind = "OneBlock"
    /\ pc[1] = "awaiting"
    /\ Len(invocations) = 2
    /\ invocations[1] = invocations[2]
    /\ HoldsDispatchedBlock(1)

\* The tool names that the metadata of the registry flags Plus-only.
plusOnlyTools ==
    {t \in ToolNames :
        registry.metadata[t].present /\ registry.metadata[t].isPlusOnly = "true"}

\* The places of the registry's list that hold a tool not flagged Plus-only.
keptPlaces == {i \in 1..Len(registry.enabled) : registry.enabled[i] \notin plusOnlyTools}

\* C20 (free-agent tool filter): what getAvailableTools returns is the list
\* that the registry reports as enabled without its Plus-only tools, in the
\* registry's order: its j-th tool is the tool at the j-th kept place of the
\* registry's list; no returned tool is Plus-only, and every reported tool
\* without metadata is returned.
C20_FreeAgentToolFilter ==
    availableTools.returned =>
        /\ Len(availableTools.tools) = Cardinality(keptPlaces)
        /\ \A i \in keptPlaces :
               availableTools.tools[Cardinality({k \in keptPlaces : k <= i})]
                   = registry.enabled[i]
        /\ \A j \in 1..Len(availableTools.tools) :
               availableTools.tools[j] \notin plusOnlyTools
        /\ \A i \in 1..Len(registry.enabled) :
               ~registry.metadata[registry.enabled[i]].present =>
                   \E j \in 1..Len(availableTools.tools) :
                       availableTools.tools[j] = registry.enabled[i]

\* C20's case: the registry reports a tool without metadata, a Plus-only
\* tool and a tool flagged not Plus-only; the first and the last are
\* returned, in that order.
C20_Witness ==
    /\ availableTools.returned
    /\ Len(registry.enabled) = 3
    /\ ~registry.metadata[registry.enabled[1]].present
    /\ registry.enabled[2] \in plusOnlyTools
    /\ registry.metadata[registry.enabled[3]].isPlusOnly = "false"
    /\ availableTools.tools = <<registry.enabled[1], registry.enabled[3]>>











=============================================================================
